---- MODULE Spec2Model ----
(***************************************************************************)
(* Pyramid scheduler of core/models/upr_base.py (class Model) and the      *)
(* blend of SynthesisNetwork.forward.                                      *)
(*                                                                         *)
(* Tensors are abstracted to their spatial size (h, w), one representative *)
(* displacement value v (pixels) and their origin src.  The learned        *)
(* operators (FeatPyramid, MotionEstimator, SynthesisNetwork's encoder and *)
(* decoder) are black boxes: only the sizes they produce, the sizes they   *)
(* accept and the fact that they ran are modelled.  The level step is      *)
(* modelled by the role the scheduler gives to each value it hands over;   *)
(* how Python binds those values to the parameters of forward_one_lvl is   *)
(* recorded separately by CallBinding.                                     *)
(***************************************************************************)
EXTENDS Integers, Sequences, FiniteSets, TLC

\* ---------------------------------------------------------------- bounds
MaxLevel == 3        \* largest pyramid depth tried
MaxFlowMag == 2      \* largest flow value the estimator is let to produce
TDen == 4            \* time_period is tn / TDen, 0 < tn < TDen
PixDen == 2          \* pixel values are p / PixDen, 0 <= p <= PixDen
MaskDen == 2         \* blend masks are m / MaskDen, 0 <= m <= MaskDen

\* ------------------------------------------------------ program constants
DefaultPyrLevel == 3
DefaultNrLvlSkipped == 0

Heights == {16, 24, 32}
Widths == {32, 40}

\* Optional integer argument: <<>> is None, <<n>> is the integer n.
None == <<>>
Some(n) == <<n>>
OptInts(S) == {None} \cup {Some(n) : n \in S}

RECURSIVE Pow2(_)
Pow2(n) == IF n <= 0 THEN 1 ELSE 2 * Pow2(n - 1)

\* ---------------------------------------------------------------- tensors
T(h, w, v, src) == [h |-> h, w |-> w, v |-> v, src |-> src]
NoneT == T(0, 0, 0, "None")          \* the Python value None
Unbound == T(0, 0, 0, "unbound")     \* a local name not assigned yet
IsTensor(x) == x.src \notin {"None", "unbound"}
SameHW(a, b) == a.h = b.h /\ a.w = b.w

\* torch.zeros((N, C, h, w))
Zeros(h, w) == T(h, w, 0, "zeros")

\* F.interpolate(x, scale_factor = k), k >= 1: size floor(n * k)
Upsample(x, k) == [x EXCEPT !.h = x.h * k, !.w = x.w * k]

\* F.interpolate(x, scale_factor = 1 / 2 ** level): size floor(n / 2 ** level)
Downsample(x, level) ==
    [x EXCEPT !.h = x.h \div Pow2(level), !.w = x.w \div Pow2(level)]

\* x * k on a displacement field
Scale(x, k) == [x EXCEPT !.v = x.v * k]

\* ------------------------------------------------------------ Python lists
\* list(range(n))[::-1]
RevRange(n) == [i \in 1..(IF n > 0 THEN n ELSE 0) |-> n - i]

\* Python's normalisation of a slice index against a list of length len
SliceIndex(i, len) ==
    LET j == IF i < 0 THEN i + len ELSE i
    IN  IF j < 0 THEN 0 ELSE IF j > len THEN len ELSE j

\* lst[start:]
SliceFrom(lst, start) == SubSeq(lst, SliceIndex(start, Len(lst)) + 1, Len(lst))

\* lst[:stop]
SliceTo(lst, stop) == SubSeq(lst, 1, SliceIndex(stop, Len(lst)))

Elems(lst) == {lst[i] : i \in 1..Len(lst)}

\* skipped_levels of Model.forward
SkippedLevelsNoZeroGuard(pyr, nr) == SliceFrom(RevRange(pyr), -nr)
SkippedLevels(pyr, nr) ==
    IF nr = 0 THEN <<>> ELSE SliceFrom(RevRange(pyr), -nr)

\* ------------------------------------------------------------ FeatPyramid
\* Conv2d(kernel 3, stride 2, padding 1): floor((n - 1) / 2) + 1
ConvStride2(n) == IF n <= 0 THEN 0 ELSE ((n - 1) \div 2) + 1

\* spatial sizes of [C0, C1, C2]
FeatPyramid(img) ==
    << T(img.h, img.w, 0, "feat"),
       T(ConvStride2(img.h), ConvStride2(img.w), 0, "feat"),
       T(ConvStride2(ConvStride2(img.h)), ConvStride2(ConvStride2(img.w)), 0, "feat") >>

\* -------------------------------------------------------- MotionEstimator
\* torch.cat([volume, feat0, feat1, last_feat, last_flow], 1) needs one
\* spatial size; the flow and the feature it returns have the size of feat0.
MotionEstimatorAccepts(feat0, lfeat, lflow) ==
    IsTensor(lfeat) /\ IsTensor(lflow) /\ feat0.h >= 1 /\ feat0.w >= 1
    /\ SameHW(feat0, lflow) /\ SameHW(feat0, lfeat)

MotionEstimator(feat0, lfeat, lflow, mv) ==
    [flow |-> T(feat0.h, feat0.w, mv, "me"),
     feat |-> T(feat0.h, feat0.w, 1, "me")]

\* ------------------------------------------------------- forward_one_lvl
\* flow, feat after the "bi-directional flow estimation" step
Estimate(feat0, lfeat, lflow, skip_me, mv) ==
    IF ~skip_me THEN MotionEstimator(feat0, lfeat, lflow, mv)
    ELSE [flow |-> lflow, feat |-> lfeat]

\* the flow pyramid handed to the synthesis network: sizes of the 3 levels
FlowPyramid(flw) ==
    LET ori == Upsample(flw, 4)
        half(x) == [x EXCEPT !.h = x.h \div 2, !.w = x.w \div 2]
    IN  << ori, half(ori), half(half(ori)) >>

\* One call of forward_one_lvl: img is the level's image, lfeat, lflow and
\* linterp the carried state, mv the value the estimator produces if it runs.
ForwardOneLvl(img, lfeat, lflow, linterp, skip_me, mv) ==
    LET pyr == FeatPyramid(img)
        meOk == skip_me \/ MotionEstimatorAccepts(pyr[3], lfeat, lflow)
        est == Estimate(pyr[3], lfeat, lflow, skip_me, mv)
        ori == FlowPyramid(est.flow)[1]
        li == IF linterp.src = "None"
              THEN T(img.h, img.w, 0, "blend") ELSE linterp
        synOk == /\ IsTensor(est.flow)
                 /\ img.h >= 1 /\ img.w >= 1
                 /\ SameHW(ori, img)
                 /\ SameHW(li, img)
    IN  [ok |-> meOk /\ synOk,
         featx |-> TRUE,
         me |-> ~skip_me /\ meOk,
         synth |-> meOk /\ synOk,
         used |-> est.flow,
         flow |-> est.flow,
         feat |-> est.feat,
         interp_img |-> T(img.h, img.w, 0, "synth")]

\* Python's binding of the positional arguments of the call at the end of
\* the level loop to the parameters of forward_one_lvl
ForwardOneLvlParams ==
    << "img0_rgb", "img1_rgb", "img0_depth", "img1_depth",
       "last_feat", "last_flow", "last_interp", "time_period" >>
ForwardOneLvlCallArgs ==
    << "img0_this_lvl", "img1_this_lvl", "last_feat", "last_flow",
       "last_interp", "time_period" >>
CallBinding ==
    [i \in 1..Len(ForwardOneLvlParams) |->
        [param |-> ForwardOneLvlParams[i],
         arg |-> IF i <= Len(ForwardOneLvlCallArgs)
                 THEN ForwardOneLvlCallArgs[i] ELSE "default"]]

\* ------------------------------------------------- SynthesisNetwork blend
\* merged_img, interp_img of one pixel.  Values are exact rationals:
\* merged = num / den in units of 1 / PixDen; den = 0 gives nan.
BlendSwapped(w0, w1, m0, m1, tn, res) ==
    LET num == w0 * m0 * tn + w1 * m1 * (TDen - tn)
        den == m0 * (TDen - tn) + m1 * tn
        pre == num + res * den
    IN  [num |-> num, den |-> den, nan |-> den = 0, pre |-> pre,
         out |-> IF pre < 0 THEN 0
                 ELSE IF pre > PixDen * den THEN PixDen * den ELSE pre]
Blend(w0, w1, m0, m1, tn, res) ==
    LET num == w0 * m0 * (TDen - tn) + w1 * m1 * tn
        den == m0 * (TDen - tn) + m1 * tn
        pre == num + res * den
    IN  [num |-> num, den |-> den, nan |-> den = 0, pre |-> pre,
         out |-> IF pre < 0 THEN 0
                 ELSE IF pre > PixDen * den THEN PixDen * den ELSE pre]

\* ------------------------------------------------------------------ state
VARIABLES
    self_pyr_level,        \* Model.pyr_level
    self_nr_lvl_skipped,   \* Model.nr_lvl_skipped
    pc,                    \* "idle", "loop", "returned", "raised"
    err,                   \* the exception raised, "" if none
    arg_pyr_level,         \* forward's pyr_level argument (None or int)
    arg_nr_lvl_skipped,    \* forward's nr_lvl_skipped argument (None or int)
    pyr_level,             \* local pyr_level
    nr_lvl_skipped,        \* local nr_lvl_skipped
    img0,                  \* the input image (N, _, H, W)
    time_period,           \* tn, for time_period = tn / TDen
    skipped_levels,
    levels,                \* what is left of the level loop's iterator
    last_flow, last_feat, last_interp,
    flow, feat, interp_img,
    bi_flows, interp_imgs,
    ret,                   \* the returned (interp_img, bi_flow)
    trace,                 \* history: one entry per loop iteration
    px                     \* one pixel of SynthesisNetwork.forward's blend

vars == << self_pyr_level, self_nr_lvl_skipped, pc, err, arg_pyr_level,
           arg_nr_lvl_skipped, pyr_level, nr_lvl_skipped, img0, time_period,
           skipped_levels, levels, last_flow, last_feat, last_interp,
           flow, feat, interp_img, bi_flows, interp_imgs, ret, trace, px >>

ctor == << self_pyr_level, self_nr_lvl_skipped >>
callv == << arg_pyr_level, arg_nr_lvl_skipped, pyr_level, nr_lvl_skipped,
            img0, time_period, skipped_levels >>
carried == << last_flow, last_feat, last_interp, flow, feat, interp_img >>

NoPx == [stage |-> "none", w0 |-> 0, w1 |-> 0, m0 |-> 0, m1 |-> 0, tn |-> 0,
         res |-> 0, num |-> 0, den |-> 0, nan |-> FALSE, pre |-> 0, out |-> 0]
NoRet == [interp_img |-> Unbound, bi_flow |-> Unbound]

\* Model.__init__(pyr_level=3, nr_lvl_skipped=0), nothing called yet
Idle ==
    /\ pc = "idle" /\ err = ""
    /\ arg_pyr_level = None /\ arg_nr_lvl_skipped = None
    /\ pyr_level = 0 /\ nr_lvl_skipped = 0
    /\ img0 = Unbound /\ time_period = 0
    /\ skipped_levels = <<>> /\ levels = <<>>
    /\ last_flow = Unbound /\ last_feat = Unbound /\ last_interp = Unbound
    /\ flow = Unbound /\ feat = Unbound /\ interp_img = Unbound
    /\ bi_flows = <<>> /\ interp_imgs = <<>>
    /\ ret = NoRet /\ trace = <<>>

Init ==
    /\ self_pyr_level \in {1, DefaultPyrLevel}
    /\ self_nr_lvl_skipped \in {DefaultNrLvlSkipped, 1}
    /\ Idle
    /\ px = NoPx

\* ---------------------------------------------------------- Model.forward
\* entry of forward, up to the level loop
Call ==
    /\ pc = "idle"
    /\ \E ap \in OptInts(0..MaxLevel), an \in OptInts((-1)..(MaxLevel + 1)),
          H \in Heights, W \in Widths, tn \in 1..(TDen - 1) :
        LET p == IF ap = None THEN self_pyr_level ELSE ap[1]
            n == IF an = None THEN self_nr_lvl_skipped ELSE an[1]
        IN  /\ arg_pyr_level' = ap
            /\ arg_nr_lvl_skipped' = an
            /\ pyr_level' = p
            /\ nr_lvl_skipped' = n
            /\ img0' = T(H, W, 0, "input")
            /\ time_period' = tn
            /\ bi_flows' = <<>>
            /\ interp_imgs' = <<>>
            /\ skipped_levels' = SkippedLevels(p, n)
            /\ levels' = RevRange(p)
    /\ pc' = "loop"
    /\ UNCHANGED << ctor, err, carried, ret, trace, px >>

\* img0_this_lvl
ImgThisLvl(level) == IF level # 0 THEN Downsample(img0, level) ELSE img0

Entry(level, branch, skip_me, r, lf, lfe, li) ==
    [level |-> level, branch |-> branch, down |-> level # 0,
     featx |-> r.featx, skip_me |-> skip_me, me |-> r.me, synth |-> r.synth,
     ok |-> r.ok, last_flow |-> lf, last_feat |-> lfe, last_interp |-> li,
     prev_flow |-> flow, used |-> r.used, bind |-> CallBinding]

NotRun == [ok |-> TRUE, featx |-> FALSE, me |-> FALSE, synth |-> FALSE,
           used |-> Unbound, flow |-> Unbound, feat |-> Unbound,
           interp_img |-> Unbound]

\* the rest of an iteration that is not bypassed: forward_one_lvl with the
\* carried state lfe, lf, li, then bi_flows.append
RunLevel(level, branch, skip_me, lf, lfe, li) ==
    \E mv \in 1..MaxFlowMag :
        LET r == ForwardOneLvl(ImgThisLvl(level), lfe, lf, li, skip_me, mv)
        IN  /\ last_flow' = lf
            /\ last_feat' = lfe
            /\ last_interp' = li
            /\ trace' = Append(trace,
                   Entry(level, branch, skip_me, r, lf, lfe, li))
            /\ IF r.ok
               THEN /\ flow' = r.flow
                    /\ feat' = r.feat
                    /\ interp_img' = r.interp_img
                    /\ bi_flows' = Append(bi_flows, Upsample(r.flow, 4))
                    /\ levels' = Tail(levels)
                    /\ UNCHANGED << pc, err >>
               ELSE /\ pc' = "raised"
                    /\ err' = "RuntimeError"
                    /\ UNCHANGED << flow, feat, interp_img, bi_flows, levels >>
            /\ UNCHANGED << ctor, callv, interp_imgs, ret, px >>

InLoop == pc = "loop" /\ levels # <<>>
Level == Head(levels)

\* which branch of the if / elif chain an iteration takes
IsCoarsest(level) == level = pyr_level - 1
IsBypassedWholeSkipSet(level) ==
    /\ ~IsCoarsest(level)
    /\ level \in Elems(skipped_levels)
IsBypassed(level) ==
    /\ ~IsCoarsest(level)
    /\ level \in Elems(SliceTo(skipped_levels, -1))
IsSkipME(level) ==
    /\ ~IsCoarsest(level) /\ ~IsBypassed(level)
    /\ level = 0 /\ Len(skipped_levels) > 0

\* if level == pyr_level - 1: the lowest-resolution pyramid level
LevelCoarsest ==
    /\ InLoop
    /\ IsCoarsest(Level)
    /\ LET h == img0.h \div Pow2(Level + 2)
           w == img0.w \div Pow2(Level + 2)
       IN  RunLevel(Level, "coarsest", FALSE, Zeros(h, w), Zeros(h, w), NoneT)

\* elif level in skipped_levels[:-1]: continue
LevelBypass ==
    /\ InLoop
    /\ IsBypassed(Level)
    /\ levels' = Tail(levels)
    /\ trace' = Append(trace,
           Entry(Level, "bypass", FALSE, NotRun, last_flow, last_feat,
                 last_interp))
    /\ UNCHANGED << ctor, callv, pc, err, carried, bi_flows, interp_imgs, ret, px >>

\* the resize of the carried flow on the transition into level 0 after a skip
SkipFlowNoRescale(resize_factor) == Upsample(flow, resize_factor)
SkipFlow(resize_factor) == Scale(Upsample(flow, resize_factor), resize_factor)

\* elif (level == 0) and len(skipped_levels) > 0
LevelSkipME ==
    /\ InLoop
    /\ IsSkipME(Level)
    /\ IF Len(skipped_levels) = pyr_level
       THEN RunLevel(Level, "skip_zero", TRUE,
                     Zeros(img0.h \div 4, img0.w \div 4), last_feat, NoneT)
       ELSE LET resize_factor == Pow2(Len(skipped_levels))
            IN  RunLevel(Level, "skip_up", TRUE,
                         SkipFlow(resize_factor),
                         last_feat,
                         Upsample(interp_img, resize_factor))

\* else: motion estimation + frame synthesis
LevelNormal ==
    /\ InLoop
    /\ ~IsCoarsest(Level) /\ ~IsBypassed(Level) /\ ~IsSkipME(Level)
    /\ RunLevel(Level, "normal", FALSE,
                Scale(Upsample(flow, 2), 2),
                Scale(Upsample(feat, 2), 2),
                Upsample(interp_img, 2))

\* after the loop: bi_flow, interp_imgs.append(interp_img), return
Return ==
    /\ pc = "loop" /\ levels = <<>>
    /\ IsTensor(flow)
    /\ ret' = [interp_img |-> interp_img, bi_flow |-> Upsample(flow, 4)]
    /\ interp_imgs' = Append(interp_imgs, interp_img)
    /\ pc' = "returned"
    /\ UNCHANGED << ctor, callv, err, levels, carried, bi_flows, trace, px >>

\* after a loop that ran no iteration, flow is not assigned
ReturnUnbound ==
    /\ pc = "loop" /\ levels = <<>>
    /\ ~IsTensor(flow)
    /\ pc' = "raised"
    /\ err' = "UnboundLocalError"
    /\ UNCHANGED << ctor, callv, levels, carried, bi_flows, interp_imgs, ret,
                    trace, px >>

Next ==
    \/ Call
    \/ LevelCoarsest
    \/ LevelBypass
    \/ LevelSkipME
    \/ LevelNormal
    \/ Return
    \/ ReturnUnbound

Spec == Init /\ [][Next]_vars

\* ------------------------------------- SynthesisNetwork.forward, the blend
InitBlend ==
    /\ self_pyr_level = DefaultPyrLevel
    /\ self_nr_lvl_skipped = DefaultNrLvlSkipped
    /\ Idle
    /\ \E w0 \in 0..PixDen, w1 \in 0..PixDen, m0 \in 0..MaskDen,
          m1 \in 0..MaskDen, tn \in 1..(TDen - 1), res \in (-PixDen)..PixDen :
        px = [NoPx EXCEPT !.stage = "in", !.w0 = w0, !.w1 = w1, !.m0 = m0,
                          !.m1 = m1, !.tn = tn, !.res = res]

\* the "prediction" part of SynthesisNetwork.forward on one pixel
SynthBlend ==
    /\ px.stage = "in"
    /\ LET b == Blend(px.w0, px.w1, px.m0, px.m1, px.tn, px.res)
       IN  px' = [px EXCEPT !.stage = "out", !.num = b.num, !.den = b.den,
                            !.nan = b.nan, !.pre = b.pre, !.out = b.out]
    /\ UNCHANGED << ctor, pc, err, callv, levels, carried, bi_flows,
                    interp_imgs, ret, trace >>

NextBlend == SynthBlend

SpecBlend == InitBlend /\ [][NextBlend]_vars

\* ----------------------------------------------------------------- claims
Called == pc # "idle"
Processed(e) == e.branch # "bypass"
ProcessedIdx == {i \in 1..Len(trace) : Processed(trace[i])}

\* H and W are multiples of 2^(pyr_level + 2)
ShapeDivisible ==
    /\ img0.h % Pow2(pyr_level + 2) = 0
    /\ img0.w % Pow2(pyr_level + 2) = 0

\* C1: with nr_lvl_skipped = pyr_level >= 1 every call of forward_one_lvl
\* has skip_me = true, the estimator never runs and the flow used for
\* synthesis is the zero-initialised one.
C1_FullSkipNeverEstimates ==
    (Called /\ pyr_level >= 1 /\ nr_lvl_skipped = pyr_level) =>
        \A i \in ProcessedIdx :
            /\ trace[i].skip_me
            /\ ~trace[i].me
            /\ trace[i].used.src = "zeros"

\* C2: nr_lvl_skipped = 0 given explicitly, and no nr_lvl_skipped on a model
\* built with the default skip count, both run the same per-level actions:
\* the levels pyr_level-1, ..., 0 in that order, none bypassed, each with
\* motion estimation (skip_me = false) followed by synthesis.
ZeroSkipCall ==
    \/ arg_nr_lvl_skipped = Some(0)
    \/ arg_nr_lvl_skipped = None /\ self_nr_lvl_skipped = DefaultNrLvlSkipped

SkipInRange == pyr_level >= 1 /\ 0 <= nr_lvl_skipped /\ nr_lvl_skipped <= pyr_level

LastEntry == trace[Len(trace)]

C5_ShapeViolationBeforeComputation ==
    (Called /\ pyr_level >= 1 /\ ~ShapeDivisible) =>
        /\ \A i \in 1..Len(trace) :
            /\ ~trace[i].down /\ ~trace[i].featx
            /\ ~trace[i].me /\ ~trace[i].synth
            /\ trace[i].last_flow.h * Pow2(trace[i].level + 2) = img0.h
        /\ pc # "returned"
        /\ pc = "raised" => err = "ShapeViolation"

\* C6: a call whose nr_lvl_skipped is inconsistent with pyr_level (greater
\* than pyr_level, negative, or pyr_level < 1) is rejected with
\* PyramidConfigurationError before the first level is processed.
C6_ConfigurationValidatedAtCall ==
    (Called /\ ~SkipInRange) =>
        /\ trace = <<>>
        /\ pc # "returned"
        /\ pc = "raised" => err = "PyramidConfigurationError"

\* C7: with mask0 = mask1 = 1 the normalisation denominator is 1 and the
\* merged image is exactly warped0*(1-t) + warped1*t; with residual = 0 the
\* frame before clamping is that same value.
C7_UnitMasksGiveLinearBlend ==
    (px.stage = "out" /\ px.m0 = MaskDen /\ px.m1 = MaskDen) =>
        /\ px.den = MaskDen * TDen
        /\ ~px.nan
        /\ px.num * TDen = (px.w0 * (TDen - px.tn) + px.w1 * px.tn) * px.den
        /\ px.res = 0 => px.pre = px.num

C7_Witness ==
    /\ px.stage = "out" /\ px.m0 = MaskDen /\ px.m1 = MaskDen
    /\ px.res = 0 /\ px.w0 = 0 /\ px.w1 = PixDen /\ px.tn = 1
    /\ px.pre * TDen = PixDen * px.den

\* C8: for 1 <= nr_lvl_skipped <= pyr_level, level 0 runs forward_one_lvl
\* with skip_me = true, without the estimator and with one synthesis; the
\* flow used is the zero flow of size H/4 x W/4 if nr_lvl_skipped =
\* pyr_level, else the last processed level's flow upsampled and multiplied
\* by 2^nr_lvl_skipped.
C8_LevelZeroSkipsEstimation ==
    (Called /\ SkipInRange /\ nr_lvl_skipped >= 1 /\ ShapeDivisible) =>
        \A i \in 1..Len(trace) :
            trace[i].level = 0 =>
                /\ Processed(trace[i])
                /\ trace[i].skip_me /\ ~trace[i].me /\ trace[i].synth
                /\ trace[i].used =
                     IF nr_lvl_skipped = pyr_level
                     THEN Zeros(img0.h \div 4, img0.w \div 4)
                     ELSE Scale(Upsample(trace[i].prev_flow,
                                         Pow2(nr_lvl_skipped)),
                                Pow2(nr_lvl_skipped))

\* C9: every level of the skip set nr_lvl_skipped-1, ..., 0 other than level
\* 0 is bypassed: no estimator, no synthesis, nothing appended, carried
\* state unchanged; for every 1 <= nr_lvl_skipped <= pyr_level.
C9_SkipSetBypassed ==
    (Called /\ SkipInRange /\ nr_lvl_skipped >= 1) =>
        \A i \in 1..Len(trace) :
            (trace[i].level >= 1 /\ trace[i].level <= nr_lvl_skipped - 1) =>
                /\ ~Processed(trace[i])
                /\ ~trace[i].me /\ ~trace[i].synth

\* the entry of the last processed level before entry i
PrevProcessed(i) ==
    LET before == {j \in ProcessedIdx : j < i}
    IN  trace[CHOOSE j \in before : \A k \in before : k <= j]

\* H and W are multiples of 2^(pyr_level + 1), the coarsest flow's divisor
SizesExact ==
    /\ img0.h % Pow2(pyr_level + 1) = 0
    /\ img0.w % Pow2(pyr_level + 1) = 0

ArgOf(bind, param) ==
    bind[CHOOSE k \in DOMAIN bind : bind[k].param = param].arg

\* C12: at every processed level forward_one_lvl receives the carried flow
\* as last_flow, the carried estimator feature as last_feat, the carried
\* interpolation (or None) as last_interp and the caller's time period as
\* time_period, and both depth images are supplied.
C12_CarriedStateBoundByRole ==
    \A i \in ProcessedIdx :
        LET b == trace[i].bind
        IN  /\ ArgOf(b, "img0_rgb") = "img0_this_lvl"
            /\ ArgOf(b, "img1_rgb") = "img1_this_lvl"
            /\ ArgOf(b, "last_flow") = "last_flow"
            /\ ArgOf(b, "last_feat") = "last_feat"
            /\ ArgOf(b, "last_interp") = "last_interp"
            /\ ArgOf(b, "time_period") = "time_period"
            /\ ArgOf(b, "img0_depth") \notin
                   {"last_feat", "last_flow", "last_interp", "time_period",
                    "default"}
            /\ ArgOf(b, "img1_depth") \notin
                   {"last_feat", "last_flow", "last_interp", "time_period",
                    "default"}

====
